---- MODULE Spec2Model ----
(***************************************************************************)
(* A model of script/generate_multigoal_dataset.py: the multi-goal         *)
(* point-navigation episode sampler.                                       *)
(*                                                                         *)
(* Lengths are integers in decimetres (0.1 m), so that the script's        *)
(* constants 1.0, 3.0, ... 20.0, 0.8, 1.2 and 1.1 are exact: a float       *)
(* comparison a * x <= y becomes an integer comparison of the scaled       *)
(* numerators.  A Python float that may be nan or inf is a record          *)
(* [k, v]; None is a record of its own kind.                               *)
(***************************************************************************)
EXTENDS Integers, Sequences, FiniteSets, TLC

\* ------------------------------------------------------------------------
\* Bounds of the model
\* ------------------------------------------------------------------------
MaxEpisodes == 2
MaxGoals == 2
\* the largest point cloud, (n_goals_per_ep + 1) * n_episodes points
MaxPoints == 8

\* ------------------------------------------------------------------------
\* Python values
\* ------------------------------------------------------------------------
None == [k |-> "None", v |-> 0]
NaN == [k |-> "nan", v |-> 0]
PosInf == [k |-> "inf", v |-> 0]
Fin(x) == [k |-> "fin", v |-> x]

IsFinite(a) == a.k = "fin"

\* a < b on floats: false as soon as one side is nan (IEEE 754).
FLt(a, b) ==
    IF a.k = "nan" \/ b.k = "nan" THEN FALSE
    ELSE IF a.k = "inf" THEN FALSE
    ELSE IF b.k = "inf" THEN TRUE
    ELSE a.v < b.v

\* a + b on floats (no negative infinity occurs in the model).
FAdd(a, b) ==
    IF a.k = "nan" \/ b.k = "nan" THEN NaN
    ELSE IF a.k = "inf" \/ b.k = "inf" THEN PosInf
    ELSE Fin(a.v + b.v)

Abs(x) == IF x < 0 THEN -x ELSE x
Min(a, b) == IF a < b THEN a ELSE b

RECURSIVE SumSeq(_)
SumSeq(s) == IF Len(s) = 0 THEN 0 ELSE Head(s) + SumSeq(Tail(s))

\* ------------------------------------------------------------------------
\* Module constants of the script (lengths in decimetres)
\* ------------------------------------------------------------------------
DIFFICULTIES == <<"very easy", "easy", "medium", "hard">>
DIFFICULTY_BOUNDS == <<10, 30, 70, 130, 200>>
\* MIN_DIST_RATIO = 1.1 = MIN_DIST_RATIO_NUM / RATIO_DEN
MIN_DIST_RATIO_NUM == 11
RATIO_DEN == 10
\* the pre-filter factors 0.8 and 1.2, over RATIO_DEN
PREFILTER_LOW_NUM == 8
PREFILTER_HIGH_NUM == 12
MIN_ISLAND_RADIUS == 15

\* ------------------------------------------------------------------------
\* The simulator behind the query interface: a corridor along the x axis.
\* A point is <<x, y, z>>, y the height.  Two of the navigable points are
\* ones sample_point must reject: one on a small island, one on another
\* floor.
\* ------------------------------------------------------------------------
AgentHeight == 0
SmallIsland == <<30, 0, 0>>
ScenePoints ==
    << <<0, 0, 0>>, <<5, 0, 0>>, <<20, 0, 0>>, <<50, 0, 0>>,
       <<120, 0, 0>>, <<240, 0, 0>>, SmallIsland, <<60, 30, 0>> >>

SimRngModulus == 16
SimRngNext(s) == (5 * s + 3) % SimRngModulus

\* sim.island_radius(pt)
island_radius(pt) == IF pt = SmallIsland THEN 10 ELSE 20

\* sim.sample_navigable_point(): advances the simulator's generator.
sample_navigable_point(rng) ==
    LET nxt == SimRngNext(rng)
    IN  [pt |-> ScenePoints[(nxt % Len(ScenePoints)) + 1], rng |-> nxt]

\* sample_point(sim, height): resample until the point is on a large enough
\* island and at the reference height (|dy| > EPS is dy # 0 on integers).
RECURSIVE sample_point(_, _)
sample_point(rng, height) ==
    LET s == sample_navigable_point(rng)
    IN  IF island_radius(s.pt) < MIN_ISLAND_RADIUS \/ Abs(s.pt[2] - height) > 0
        THEN sample_point(s.rng, height)
        ELSE s

\* [sample_point(sim, height) for _ in range(n)]
RECURSIVE SamplePoints(_, _, _)
SamplePoints(rng, height, n) ==
    IF n <= 0 THEN [pts |-> <<>>, rng |-> rng]
    ELSE LET s == sample_point(rng, height)
             rest == SamplePoints(s.rng, height, n - 1)
         IN  [pts |-> <<s.pt>> \o rest.pts, rng |-> rest.rng]

\* Euclidean distance of two points of the corridor (same y, same z).
Dist(p, q) == Abs(p[1] - q[1])

\* pairs = [(i, j) for i in range(n - 1) for j in range(i + 1, n)], 0-based.
RECURSIVE PairsFrom(_, _, _)
PairsFrom(i, j, n) ==
    IF i >= n - 1 THEN <<>>
    ELSE IF j >= n THEN PairsFrom(i + 1, i + 2, n)
    ELSE <<<<i, j>>>> \o PairsFrom(i, j + 1, n)

Pairs(n) == PairsFrom(0, 1, n)

\* scipy's pdist(X): the condensed distance vector, entry m the distance of
\* the m-th pair (i, j), i < j, in row-major order.
pairwise_distance(pts) ==
    LET ps == Pairs(Len(pts))
    IN  [m \in 1..Len(ps) |-> Dist(pts[ps[m][1] + 1], pts[ps[m][2] + 1])]

\* zip(a, b): as long as the shorter one.
Zip(a, b) == [m \in 1..Min(Len(a), Len(b)) |-> <<a[m], b[m]>>]

\* ------------------------------------------------------------------------
\* parse_difficulty_ratios
\* ------------------------------------------------------------------------
\* a guard that only refuses a list that is too short
InvalidRatios_TooShortOnly(ratios) ==
    (\E m \in 1..Len(ratios) : ratios[m] < 0) \/ Len(ratios) < 4

\* the guard of line 50: any(r < 0 for r in ratios) or len(ratios) != 4
InvalidRatios(ratios) ==
    (\E m \in 1..Len(ratios) : ratios[m] < 0) \/ Len(ratios) # 4

\* Python's round(num / den) for num >= 0, den > 0: to the nearest integer,
\* a tie to the even one.
PyRound(num, den) ==
    LET q == num \div den
        r == num % den
    IN  IF 2 * r < den THEN q
        ELSE IF 2 * r > den THEN q + 1
        ELSE IF q % 2 = 0 THEN q ELSE q + 1

\* a target count that rounds instead of truncating
TargetCount_Rounded(r, n_episodes, tot) == PyRound(r * n_episodes, tot)

\* int(r * n_episodes / tot): int() truncates toward zero; the operands are
\* never negative here, where truncation is the floor.  (On integer-valued
\* ratios the float quotient has the same integer part as the exact one.)
TargetCount(r, n_episodes, tot) == (r * n_episodes) \div tot

\* The value of parse_difficulty_ratios(args), or the exception it raises.
\* With tot = 0 the first r * n / tot raises ZeroDivisionError.
parse_difficulty_ratios(ratios, n_episodes) ==
    IF InvalidRatios(ratios)
    THEN [raises |-> "ValueError", value |-> <<>>]
    ELSE LET tot == SumSeq(ratios)
             n == Min(Len(ratios), Len(DIFFICULTIES))
         IN  IF tot = 0 /\ n > 0
             THEN [raises |-> "ZeroDivisionError", value |-> <<>>]
             ELSE [raises |-> "",
                   value |-> [m \in 1..n |->
                                [k |-> DIFFICULTIES[m],
                                 n_ep |-> TargetCount(ratios[m], n_episodes, tot),
                                 min_d |-> DIFFICULTY_BOUNDS[m],
                                 max_d |-> DIFFICULTY_BOUNDS[m + 1]]]]

\* ------------------------------------------------------------------------
\* The sampler's tests
\* ------------------------------------------------------------------------
\* a pre-filter without the 0.8 and 1.2 slack factors
InPrefilter_NoSlack(euc_d, min_d, max_d) ==
    /\ RATIO_DEN * min_d <= RATIO_DEN * euc_d
    /\ RATIO_DEN * euc_d <= RATIO_DEN * max_d

\* 0.8 * min_d <= euc_d <= 1.2 * max_d
InPrefilter(euc_d, min_d, max_d) ==
    /\ PREFILTER_LOW_NUM * min_d <= RATIO_DEN * euc_d
    /\ RATIO_DEN * euc_d <= PREFILTER_HIGH_NUM * max_d

\* candidates = [(p, euc_d) for p, euc_d in zip(pairs, euc_dists) if ...]
Candidates(pts, min_d, max_d) ==
    SelectSeq(Zip(Pairs(Len(pts)), pairwise_distance(pts)),
              LAMBDA c : InPrefilter(c[2], min_d, max_d))

\* d / euc_d < MIN_DIST_RATIO, euc_d > 0 (a candidate's distance is at least
\* 0.8 * min_d): false for nan (every comparison is) and for inf.
RatioLt(d, euc_d) ==
    IF d.k = "fin" THEN d.v * RATIO_DEN < MIN_DIST_RATIO_NUM * euc_d ELSE FALSE

\* a loop condition without the distance-ratio test
LoopCond_NoRatio(d, euc_d, min_d, max_d) ==
    \/ d = None
    \/ FLt(d, Fin(min_d))
    \/ FLt(Fin(max_d), d)

\* a loop condition without the upper bound of the bucket
LoopCond_NoUpper(d, euc_d, min_d, max_d) ==
    \/ d = None
    \/ FLt(d, Fin(min_d))
    \/ RatioLt(d, euc_d)

\* the condition of both while loops:
\* d is None or d < min_d or d > max_d or d / euc_d < MIN_DIST_RATIO
LoopCond(d, euc_d, min_d, max_d) ==
    \/ d = None
    \/ FLt(d, Fin(min_d))
    \/ FLt(Fin(max_d), d)
    \/ RatioLt(d, euc_d)

\* next candidates that are not restricted to the pairs through `last`
NxtCandidates_Unrestricted(cands, last) ==
    [m \in 1..Len(cands) |-> <<cands[m][1][2], cands[m][2]>>]

\* next candidates taken only from the pairs that start at `last`
NxtCandidates_FirstEndpointOnly(cands, last) ==
    LET fst == SelectSeq(cands, LAMBDA c : c[1][1] = last)
    IN  [m \in 1..Len(fst) |-> <<fst[m][1][2], fst[m][2]>>]

\* nxt_candidates: the other endpoint, and the distance, of every candidate
\* pair that has `last` as an endpoint.
NxtCandidates(cands, last) ==
    LET fst == SelectSeq(cands, LAMBDA c : c[1][1] = last)
        snd == SelectSeq(cands, LAMBDA c : c[1][2] = last)
    IN  [m \in 1..Len(fst) |-> <<fst[m][1][2], fst[m][2]>>]
        \o [m \in 1..Len(snd) |-> <<snd[m][1][1], snd[m][2]>>]

\* ------------------------------------------------------------------------
\* make_episode
\* ------------------------------------------------------------------------
SCENE == "scene"
SUCCESS_DISTANCE == 2

\* str(n) of a non-negative int: its decimal digits, most significant first
Digit(n) == <<"0", "1", "2", "3", "4", "5", "6", "7", "8", "9">>[n + 1]
RECURSIVE str(_)
str(n) == IF n < 10 THEN <<Digit(n)>> ELSE Append(str(n \div 10), Digit(n % 10))
\* a variant of the id that numbers the episodes within their bucket
EpisodeId_PerBucket(cnt, ep_in_bucket) == str(ep_in_bucket)
\* the id handed to make_episode: str(tot_cnt), the run-wide counter
EpisodeId(cnt, ep_in_bucket) == str(cnt)
\* a = 2 * pi * random.random(), in quarter turns
YawSteps == 0..3

NavigationGoal(position, radius) == [position |-> position, radius |-> radius]

NavigationEpisode(ep_id, scene_id, src, q, goals, info) ==
    [episode_id |-> ep_id, scene_id |-> scene_id, start_position |-> src,
     start_rotation |-> q, goals |-> goals, info |-> info]

\* the record that make_episode assembles (lines 66-72)
AssembledEpisode(ep_id, scene_id, src, destinations, success_dist, difficulty, geo_dist, a) ==
    LET q == [x |-> 0, y |-> <<"sin", a, 2>>, z |-> 0, w |-> <<"cos", a, 2>>]
        goals == [m \in 1..Len(destinations) |->
                     NavigationGoal(destinations[m], success_dist)]
    IN  NavigationEpisode(ep_id, scene_id, src, q, goals,
                          [difficulty |-> difficulty,
                           geodesic_distance |-> geo_dist])

\* make_episode has no return statement: its value is None.
make_episode(ep_id, scene_id, src, destinations, success_dist, difficulty, geo_dist, a) ==
    LET episode == AssembledEpisode(ep_id, scene_id, src, destinations,
                                    success_dist, difficulty, geo_dist, a)
    IN  None

\* ------------------------------------------------------------------------
\* State
\* ------------------------------------------------------------------------
VARIABLES
    pc,            \* where main is
    error,         \* the exception that ended the run, "" if none
    args,          \* the parsed command line
    out_dir,       \* os.makedirs was called
    difficulties,  \* the value of parse_difficulty_ratios
    sim_created, sim_rng,
    sim_queries,   \* the simulator queries made so far (their names)
    sim_geodesic,  \* what is assumed of the simulator's geodesic_distance
    nav_pts,
    tot_cnt, progress, episodes, written,
    b,             \* position of the loop over difficulties.items() (1-based)
    candidates,
    ep,            \* the loop variable of `for ep in range(n_ep)`
    leg,           \* iterations done of `for _ in range(n_goals_per_ep - 1)`
    d, euc_d, i, j, src, dst, last, destinations, tot_d,
    make_calls,    \* history: the (id, difficulty) of each make_episode call
    observe,       \* whether this execution records its random decisions
    decisions,     \* history: the random decisions taken, when observed
    run_no,        \* 1, or 2 in the second of two runs of the same command
    first_run      \* the decisions of the first of two runs

\* BaseSimulatorViewer (visualization.py), the state its mouse and key
\* handlers read and write
VARIABLES
    drag_start,         \* self.drag_start: a map pixel, or None
    drag_vec,           \* self.drag_vec: a unit vector, or None
    collision_enabled,  \* self.collision_enabled
    agent_state,        \* the simulator's agent: position and heading
    raised,             \* the exception the last handler ended with, "" if none
    released,           \* history: the last event handled was a button release
    drag_since_press    \* history: direction of the last drag made since the
                        \* last press, None if none

viewerVars ==
    <<drag_start, drag_vec, collision_enabled, agent_state, raised, released,
      drag_since_press>>

vars ==
    <<pc, error, args, out_dir, difficulties, sim_created, sim_rng,
      sim_queries, nav_pts, tot_cnt, progress, episodes, written, b,
      candidates, ep, leg, d, euc_d, i, j, src, dst, last, destinations,
      tot_d, make_calls, observe, decisions, run_no, first_run,
      sim_geodesic, viewerVars>>

simVars == <<sim_created, sim_rng, sim_queries>>
outVars == <<tot_cnt, progress, episodes, written, make_calls>>
legVars == <<d, euc_d, i, j, src, dst, last, destinations, tot_d>>
loopVars == <<b, candidates, ep, leg>>
\* what no step of main changes: the execution's setting, and the viewer
runVars == <<observe, run_no, first_run, sim_geodesic, viewerVars>>

\* What sim.geodesic_distance(p, q) may return, e the straight-line
\* distance.  The simulator is a black box: with sim_geodesic = "arbitrary"
\* any of these on any call, a path as long as the straight line or longer, a
\* negative sentinel, infinity, nan.  With sim_geodesic = "detour" it is the
\* deterministic, symmetric simulator the specification assumes, every
\* shortest path 1.2 times the straight line.
GeodesicReturns(p, q) ==
    LET e == Dist(p, q)
    IN  IF sim_geodesic = "detour"
        THEN {Fin(e + (e \div 5))}
        ELSE {NaN, PosInf, Fin(-10), Fin(e), Fin(e + (e \div 10)), Fin(2 * e)}

\* the names that are unbound until a loop assigns them
NoPoint == <<>>
NoIndex == -1

\* ------------------------------------------------------------------------
\* BaseSimulatorViewer: the map window (visualization.py)
\* ------------------------------------------------------------------------
\* the map image is MapSize x MapSize pixels; None is NoPoint
MapSize == 2
MapPixels == {<<x, y>> : x \in 0..(MapSize - 1), y \in 0..(MapSize - 1)}

\* self.map_resolution, self.map_origin, self.map_altitude (lines 29-34)
map_resolution == <<2, 3>>
map_origin == <<-2, -3>>
map_altitude == AgentHeight

\* project_map_to_pos(uv): uv * map_resolution + map_origin, at the altitude
project_map_to_pos(uv) ==
    <<uv[1] * map_resolution[1] + map_origin[1], map_altitude,
      uv[2] * map_resolution[2] + map_origin[2]>>

\* project_pos_to_map(pos): ((pos[::2] - map_origin) / map_resolution) as
\* integers (positions of the map are never left of or above its origin)
project_pos_to_map(pos) ==
    <<(pos[1] - map_origin[1]) \div map_resolution[1],
      (pos[3] - map_origin[2]) \div map_resolution[2]>>

\* drag_vec / norm: a unit vector is kept as the smallest integer vector of
\* its direction
RECURSIVE Gcd(_, _)
Gcd(m, n) == IF n = 0 THEN m ELSE Gcd(n, m % n)
Unit(v) ==
    LET g == Gcd(Abs(v[1]), Abs(v[2]))
    IN  <<(IF v[1] < 0 THEN -1 ELSE 1) * (Abs(v[1]) \div g),
          (IF v[2] < 0 THEN -1 ELSE 1) * (Abs(v[2]) \div g)>>

\* the heading of rot: [0, 1, 0, 0] when head is None, else the rotation by
\* yaw = pi + arctan2(head[0], head[1]) about the vertical axis.  Either
\* turns the agent's forward axis to the map direction `head`, and
\* [0, 1, 0, 0] is the rotation of head = (0, 1).
DefaultHeading == <<0, 1>>
HeadingOf(head) == IF head = NoPoint THEN DefaultHeading ELSE head

\* sim.reset(): the agent's pose at the start of the scene
StartPose == [position |-> project_map_to_pos(<<0, 0>>), heading |-> DefaultHeading]

\* sim.step_filter(pos, pos): where the navmesh lets the step end, some
\* position of the map
StepFilterReturns(pos) == {project_map_to_pos(uv) : uv \in MapPixels}

\* draw_agent_on_map(disp, pos, head): the marker it draws
draw_agent_on_map(agent, pos, head) ==
    IF pos = NoPoint
    THEN [at |-> project_pos_to_map(agent.position), head |-> agent.heading]
    ELSE IF head = NoPoint THEN [at |-> pos, head |-> DefaultHeading]
    ELSE [at |-> pos, head |-> head]

\* draw_map(): the agent's marker, and the drag's when drag_vec is set
draw_map(agent, start, vec) ==
    [agent |-> draw_agent_on_map(agent, NoPoint, NoPoint),
     drag |-> IF vec # NoPoint THEN <<draw_agent_on_map(agent, start, vec)>> ELSE <<>>]

\* what line 62 leaves in drag_vec on a release: the vector is kept
DragVecAfterRelease_Kept(vec) == vec
\* line 62: self.drag_vec = None
DragVecAfterRelease(vec) == NoPoint

\* the viewer after __init__ (lines 43-48)
ViewerConstructed ==
    /\ drag_start = NoPoint
    /\ drag_vec = NoPoint
    /\ collision_enabled = FALSE
    /\ agent_state = StartPose
    /\ raised = ""
    /\ released = FALSE
    /\ drag_since_press = NoPoint

\* ------------------------------------------------------------------------
\* Inputs
\* ------------------------------------------------------------------------
RatioValues == {0, 1, 2}
Seeds == {0, 1}

\* ratio lists that pass the guard: at most two buckets are asked for
ValidRatioLists ==
    {r \in [1..4 -> RatioValues] : Cardinality({m \in 1..4 : r[m] > 0}) <= 2}

\* ratio lists the guard refuses: too short, too long, a negative entry
InvalidRatioLists ==
    {<<1, 1, 1>>, <<>>, <<2, 0, 1, 1, 1>>, <<1, 1, 1, 1, 0, 0>>,
     <<1, -1, 1, 1>>, <<-2, 0, 0, 0>>, <<0, 0, 0, -1>>, <<-1, 1, 1>>}

Args ==
    {a \in [difficulty_ratios : ValidRatioLists \cup InvalidRatioLists,
            n_episodes : 1..MaxEpisodes,
            n_goals_per_ep : 0..MaxGoals,
            seed : Seeds] :
        (a.n_goals_per_ep + 1) * a.n_episodes <= MaxPoints}

\* the state of a fresh process, before main runs
Fresh ==
    /\ pc = "config"
    /\ error = ""
    /\ out_dir = FALSE
    /\ difficulties = <<>>
    /\ sim_created = FALSE
    /\ sim_rng = 0
    /\ sim_queries = {}
    /\ nav_pts = <<>>
    /\ tot_cnt = 0
    /\ progress = 0
    /\ episodes = <<>>
    /\ written = FALSE
    /\ b = 0
    /\ candidates = <<>>
    /\ ep = 0
    /\ leg = 0
    /\ d = None
    /\ euc_d = 0
    /\ i = NoIndex
    /\ j = NoIndex
    /\ src = NoPoint
    /\ dst = NoPoint
    /\ last = NoIndex
    /\ destinations = <<>>
    /\ tot_d = None
    /\ make_calls = <<>>
    /\ decisions = <<>>

Init ==
    /\ args \in Args
    /\ Fresh
    /\ sim_geodesic = "arbitrary"
    /\ observe = FALSE
    /\ run_no = 1
    /\ first_run = <<>>
    /\ ViewerConstructed

\* ------------------------------------------------------------------------
\* main, step by step
\* ------------------------------------------------------------------------
\* the bucket the loop over difficulties.items() is in
Bucket == difficulties[b]

\* lines 76-78: the configuration, the output path, its directory
GetConfig ==
    /\ pc = "config"
    /\ out_dir' = TRUE
    /\ pc' = "parse"
    /\ UNCHANGED <<error, args, runVars, decisions, difficulties, nav_pts>>
    /\ UNCHANGED <<simVars, outVars, loopVars, legVars>>

\* line 80: difficulties = parse_difficulty_ratios(args)
ParseRatios ==
    /\ pc = "parse"
    /\ LET r == parse_difficulty_ratios(args.difficulty_ratios, args.n_episodes)
       IN  IF r.raises # ""
           THEN /\ pc' = "failed"
                /\ error' = r.raises
                /\ UNCHANGED difficulties
           ELSE /\ pc' = "make_sim"
                /\ difficulties' = r.value
                /\ UNCHANGED error
    /\ UNCHANGED <<args, runVars, decisions, out_dir, nav_pts>>
    /\ UNCHANGED <<simVars, outVars, loopVars, legVars>>

\* lines 82-86: the simulator, its seed, the empty dataset
MakeSim ==
    /\ pc = "make_sim"
    /\ sim_created' = TRUE
    /\ sim_rng' = args.seed % SimRngModulus
    /\ sim_queries' = sim_queries \cup {"get_agent_state", "seed"}
    /\ pc' = "sample"
    /\ UNCHANGED <<error, args, runVars, decisions, out_dir, difficulties, nav_pts>>
    /\ UNCHANGED <<outVars, loopVars, legVars>>

\* lines 88-92: the point cloud (pairs and euc_dists are functions of it)
SampleNavPts ==
    /\ pc = "sample"
    /\ LET n_pts == (args.n_goals_per_ep + 1) * args.n_episodes
           s == SamplePoints(sim_rng, AgentHeight, n_pts)
       IN  /\ nav_pts' = s.pts
           /\ sim_rng' = s.rng
    /\ sim_queries' = sim_queries \cup {"sample_navigable_point", "island_radius"}
    /\ pc' = "bucket"
    /\ UNCHANGED <<error, args, runVars, decisions, out_dir, difficulties, sim_created>>
    /\ UNCHANGED <<outVars, loopVars, legVars>>

\* lines 96-99: the next bucket and its pre-filtered candidates
EnterBucket ==
    /\ pc = "bucket"
    /\ b < Len(difficulties)
    /\ b' = b + 1
    /\ candidates' = Candidates(nav_pts, difficulties[b + 1].min_d,
                                difficulties[b + 1].max_d)
    /\ ep' = 0
    /\ pc' = "episode"
    /\ UNCHANGED <<error, args, runVars, decisions, out_dir, difficulties, nav_pts, leg>>
    /\ UNCHANGED <<simVars, outVars, legVars>>

\* line 96, the loop over the buckets is exhausted
LeaveBuckets ==
    /\ pc = "bucket"
    /\ b >= Len(difficulties)
    /\ pc' = "write"
    /\ UNCHANGED <<error, args, runVars, decisions, out_dir, difficulties, nav_pts>>
    /\ UNCHANGED <<simVars, outVars, loopVars, legVars>>

\* lines 101-102: for ep in range(n_ep): d = None
StartEpisode ==
    /\ pc = "episode"
    /\ ep < Bucket.n_ep
    /\ d' = None
    /\ pc' = "first_leg"
    /\ UNCHANGED <<error, args, runVars, decisions, out_dir, difficulties, nav_pts>>
    /\ UNCHANGED <<simVars, outVars, loopVars>>
    /\ UNCHANGED <<euc_d, i, j, src, dst, last, destinations, tot_d>>

\* line 101, range(n_ep) is exhausted
LeaveBucket ==
    /\ pc = "episode"
    /\ ep >= Bucket.n_ep
    /\ pc' = "bucket"
    /\ UNCHANGED <<error, args, runVars, decisions, out_dir, difficulties, nav_pts>>
    /\ UNCHANGED <<simVars, outVars, loopVars, legVars>>

\* lines 103-107: one iteration of the first-leg loop.  random.choice draws
\* any candidate (the `random` module is never seeded by the script) and
\* raises IndexError on an empty list.
FirstLegDraw ==
    /\ pc = "first_leg"
    /\ LoopCond(d, euc_d, Bucket.min_d, Bucket.max_d)
    /\ IF candidates = <<>>
       THEN /\ pc' = "failed"
            /\ error' = "IndexError"
            /\ UNCHANGED <<sim_queries, legVars>>
       ELSE /\ \E c \in 1..Len(candidates) :
                  /\ i' = candidates[c][1][1]
                  /\ j' = candidates[c][1][2]
                  /\ euc_d' = candidates[c][2]
                  /\ src' = nav_pts[candidates[c][1][1] + 1]
                  /\ dst' = nav_pts[candidates[c][1][2] + 1]
                  /\ d' \in GeodesicReturns(nav_pts[candidates[c][1][1] + 1],
                                            nav_pts[candidates[c][1][2] + 1])
            /\ sim_queries' = sim_queries \cup {"geodesic_distance"}
            /\ UNCHANGED <<pc, error, last, destinations, tot_d>>
    /\ UNCHANGED <<args, runVars, decisions, out_dir, difficulties, nav_pts>>
    /\ UNCHANGED <<sim_created, sim_rng, outVars, loopVars>>

\* lines 108-110: the first-leg loop is left, the leg is taken
FirstLegAccept ==
    /\ pc = "first_leg"
    /\ ~LoopCond(d, euc_d, Bucket.min_d, Bucket.max_d)
    /\ last' = j
    /\ destinations' = <<dst>>
    /\ decisions' = IF observe THEN Append(decisions, <<"pair", i, j>>) ELSE decisions
    /\ tot_d' = d
    /\ leg' = 0
    /\ pc' = "chain"
    /\ UNCHANGED <<error, args, runVars, out_dir, difficulties, nav_pts>>
    /\ UNCHANGED <<simVars, outVars, b, candidates, ep>>
    /\ UNCHANGED <<d, euc_d, i, j, src, dst>>

\* the value of nxt_candidates (lines 113-114) in the current state
nxt_candidates == NxtCandidates(candidates, last)

\* lines 112-115: for _ in range(n_goals_per_ep - 1): ...; d = None
StartChainedLeg ==
    /\ pc = "chain"
    /\ leg < args.n_goals_per_ep - 1
    /\ d' = None
    /\ pc' = "chain_leg"
    /\ UNCHANGED <<error, args, runVars, decisions, out_dir, difficulties, nav_pts>>
    /\ UNCHANGED <<simVars, outVars, loopVars>>
    /\ UNCHANGED <<euc_d, i, j, src, dst, last, destinations, tot_d>>

\* line 112, range(n_goals_per_ep - 1) is exhausted
LeaveChain ==
    /\ pc = "chain"
    /\ leg >= args.n_goals_per_ep - 1
    /\ pc' = "make"
    /\ UNCHANGED <<error, args, runVars, decisions, out_dir, difficulties, nav_pts>>
    /\ UNCHANGED <<simVars, outVars, loopVars, legVars>>

\* lines 116-120: one iteration of the chained-leg loop
ChainedLegDraw ==
    /\ pc = "chain_leg"
    /\ LoopCond(d, euc_d, Bucket.min_d, Bucket.max_d)
    /\ IF nxt_candidates = <<>>
       THEN /\ pc' = "failed"
            /\ error' = "IndexError"
            /\ UNCHANGED <<sim_queries, legVars>>
       ELSE /\ \E c \in 1..Len(nxt_candidates) :
                  /\ j' = nxt_candidates[c][1]
                  /\ euc_d' = nxt_candidates[c][2]
                  /\ src' = nav_pts[last + 1]
                  /\ dst' = nav_pts[nxt_candidates[c][1] + 1]
                  /\ d' \in GeodesicReturns(nav_pts[last + 1],
                                            nav_pts[nxt_candidates[c][1] + 1])
            /\ sim_queries' = sim_queries \cup {"geodesic_distance"}
            /\ UNCHANGED <<pc, error, i, last, destinations, tot_d>>
    /\ UNCHANGED <<args, runVars, decisions, out_dir, difficulties, nav_pts>>
    /\ UNCHANGED <<sim_created, sim_rng, outVars, loopVars>>

\* lines 121-123: the chained-leg loop is left, the leg is taken
ChainedLegAccept ==
    /\ pc = "chain_leg"
    /\ ~LoopCond(d, euc_d, Bucket.min_d, Bucket.max_d)
    /\ last' = j
    /\ destinations' = Append(destinations, dst)
    /\ decisions' = IF observe THEN Append(decisions, <<"pair", last, j>>) ELSE decisions
    /\ tot_d' = FAdd(tot_d, d)
    /\ leg' = leg + 1
    /\ pc' = "chain"
    /\ UNCHANGED <<error, args, runVars, out_dir, difficulties, nav_pts>>
    /\ UNCHANGED <<simVars, outVars, b, candidates, ep>>
    /\ UNCHANGED <<d, euc_d, i, j, src, dst>>

\* lines 125-129: the episode is made and appended; the next iteration of
\* the episode loop rebinds every name of legVars before it reads it, so
\* they are cleared here.
MakeEpisode ==
    /\ pc = "make"
    /\ \E a \in YawSteps :
          /\ episodes' = Append(episodes,
                                make_episode(EpisodeId(tot_cnt, ep), SCENE, src, destinations,
                                             SUCCESS_DISTANCE, Bucket.k, tot_d, a))
          /\ decisions' = IF observe THEN Append(decisions, <<"yaw", a, a>>)
                                     ELSE decisions
    /\ make_calls' = Append(make_calls, [ep_id |-> EpisodeId(tot_cnt, ep),
                                        difficulty |-> Bucket.k])
    /\ tot_cnt' = tot_cnt + 1
    /\ progress' = progress + 1
    /\ ep' = ep + 1
    /\ leg' = 0
    /\ d' = None
    /\ euc_d' = 0
    /\ i' = NoIndex
    /\ j' = NoIndex
    /\ src' = NoPoint
    /\ dst' = NoPoint
    /\ last' = NoIndex
    /\ destinations' = <<>>
    /\ tot_d' = None
    /\ pc' = "episode"
    /\ UNCHANGED <<error, args, runVars, out_dir, difficulties, nav_pts>>
    /\ UNCHANGED <<simVars, written, b, candidates>>

\* lines 131-132: the dataset is written
WriteDataset ==
    /\ pc = "write"
    /\ written' = TRUE
    /\ pc' = "done"
    /\ UNCHANGED <<error, args, runVars, decisions, out_dir, difficulties, nav_pts>>
    /\ UNCHANGED <<simVars, tot_cnt, progress, episodes, make_calls>>
    /\ UNCHANGED <<loopVars, legVars>>

Next ==
    \/ GetConfig
    \/ ParseRatios
    \/ MakeSim
    \/ SampleNavPts
    \/ EnterBucket
    \/ LeaveBuckets
    \/ StartEpisode
    \/ LeaveBucket
    \/ FirstLegDraw
    \/ FirstLegAccept
    \/ StartChainedLeg
    \/ LeaveChain
    \/ ChainedLegDraw
    \/ ChainedLegAccept
    \/ MakeEpisode
    \/ WriteDataset

Spec == Init /\ [][Next]_vars

\* ------------------------------------------------------------------------
\* Two runs of the same command line on the same scene, one after the other:
\* the second is a new process, started with the arguments of the first once
\* it is done.  The simulator is deterministic for fixed inputs, and both
\* runs record their random decisions.
\* ------------------------------------------------------------------------
ArgsTwoRuns == {a \in Args : a.n_episodes = 1 /\ a.n_goals_per_ep >= 1}

InitTwoRuns ==
    /\ args \in ArgsTwoRuns
    /\ Fresh
    /\ sim_geodesic = "detour"
    /\ observe = TRUE
    /\ run_no = 1
    /\ first_run = <<>>
    /\ ViewerConstructed

\* lines 135-136, a second time
Rerun ==
    /\ pc = "done"
    /\ run_no = 1
    /\ run_no' = 2
    /\ first_run' = decisions
    /\ decisions' = <<>>
    /\ pc' = "config"
    /\ error' = ""
    /\ out_dir' = FALSE
    /\ difficulties' = <<>>
    /\ sim_created' = FALSE
    /\ sim_rng' = 0
    /\ sim_queries' = {}
    /\ nav_pts' = <<>>
    /\ tot_cnt' = 0
    /\ progress' = 0
    /\ episodes' = <<>>
    /\ written' = FALSE
    /\ b' = 0
    /\ candidates' = <<>>
    /\ ep' = 0
    /\ make_calls' = <<>>
    /\ UNCHANGED <<args, observe, sim_geodesic, leg, legVars, viewerVars>>

NextTwoRuns == Next \/ Rerun

SpecTwoRuns == InitTwoRuns /\ [][NextTwoRuns]_vars

\* ------------------------------------------------------------------------
\* The run under fair random selection and a deterministic simulator.
\* sim.geodesic_distance is a function of the two points (and symmetric, as
\* Dist is); once the points are sampled the program never idles (lines
\* 94-132 have no blocking call); and random.choice is fair: while a
\* loop keeps retrying and some candidate it may draw ends the loop, that
\* candidate is eventually drawn (lines 104-107, 117-120).
\* ------------------------------------------------------------------------
InitFair ==
    /\ args \in Args
    /\ Fresh
    /\ sim_geodesic = "detour"
    /\ observe = FALSE
    /\ run_no = 1
    /\ first_run = <<>>
    /\ ViewerConstructed

\* a draw of the first-leg loop after which the loop condition is false
FirstLegDrawAccepted ==
    /\ FirstLegDraw
    /\ pc' = "first_leg"
    /\ ~LoopCond(d', euc_d', Bucket.min_d, Bucket.max_d)

\* a draw of the chained-leg loop after which the loop condition is false
ChainedLegDrawAccepted ==
    /\ ChainedLegDraw
    /\ pc' = "chain_leg"
    /\ ~LoopCond(d', euc_d', Bucket.min_d, Bucket.max_d)

\* the step EnterBucket as pc and b show it: enabled in the same states, and
\* the steps of Next that satisfy it are the steps of EnterBucket
EnterBucketStep ==
    /\ pc = "bucket"
    /\ b < Len(difficulties)
    /\ pc' = "episode"
    /\ b' = b + 1

\* the other steps of lines 94-132: the bucket loop and the final write
GenerateNext ==
    \/ LeaveBuckets
    \/ StartEpisode
    \/ LeaveBucket
    \/ FirstLegDraw
    \/ FirstLegAccept
    \/ StartChainedLeg
    \/ LeaveChain
    \/ ChainedLegDraw
    \/ ChainedLegAccept
    \/ MakeEpisode
    \/ WriteDataset

SpecFair ==
    /\ InitFair
    /\ [][Next]_vars
    /\ WF_<<pc, b>>(EnterBucketStep)
    /\ WF_vars(GenerateNext)
    /\ WF_vars(FirstLegDrawAccepted)
    /\ WF_vars(ChainedLegDrawAccepted)

\* ------------------------------------------------------------------------
\* The viewer's event loop (run, lines 191-198): cv2 hands the mouse events
\* of the map window to on_mouse_map and the keys to on_key, in any order.
\* An exception a mouse callback ends with is printed by cv2 and the loop
\* goes on.
\* ------------------------------------------------------------------------
genVars ==
    <<pc, error, args, out_dir, difficulties, sim_created, sim_rng,
      sim_queries, nav_pts, tot_cnt, progress, episodes, written, b,
      candidates, ep, leg, d, euc_d, i, j, src, dst, last, destinations,
      tot_d, make_calls, observe, decisions, run_no, first_run, sim_geodesic>>

\* lines 51-52: on_mouse_map(EVENT_LBUTTONDOWN, x, y)
LButtonDown ==
    /\ \E uv \in MapPixels : drag_start' = uv
    /\ drag_since_press' = NoPoint
    /\ raised' = ""
    /\ released' = FALSE
    /\ UNCHANGED <<drag_vec, collision_enabled, agent_state, genVars>>

\* lines 53-58: on_mouse_map(EVENT_MOUSEMOVE, x, y); update() then shows
\* draw_map of the new state
MouseMove ==
    /\ \E uv \in MapPixels :
          IF drag_start # NoPoint /\ uv # drag_start
          THEN LET v == Unit(<<uv[1] - drag_start[1], uv[2] - drag_start[2]>>)
               IN  /\ drag_vec' = v
                   /\ drag_since_press' = v
          ELSE UNCHANGED <<drag_vec, drag_since_press>>
    /\ raised' = ""
    /\ released' = FALSE
    /\ UNCHANGED <<drag_start, collision_enabled, agent_state, genVars>>

\* lines 59-63 and teleport_agent_on_map (lines 98-107):
\* on_mouse_map(EVENT_LBUTTONUP, x, y).  project_map_to_pos(None) raises
\* TypeError (None * ndarray), before anything is assigned.
LButtonUp ==
    /\ released' = TRUE
    /\ IF drag_start = NoPoint
       THEN /\ raised' = "TypeError"
            /\ UNCHANGED <<drag_start, drag_vec, drag_since_press, agent_state>>
       ELSE /\ raised' = ""
            /\ \E pos \in IF collision_enabled
                          THEN StepFilterReturns(project_map_to_pos(drag_start))
                          ELSE {project_map_to_pos(drag_start)} :
                  agent_state' = [position |-> pos, heading |-> HeadingOf(drag_vec)]
            /\ drag_start' = NoPoint
            /\ drag_vec' = DragVecAfterRelease(drag_vec)
            /\ drag_since_press' = NoPoint
    /\ UNCHANGED <<collision_enabled, genVars>>

\* on_mouse_map with any other event: no branch is taken
OtherMouseEvent ==
    /\ raised' = ""
    /\ released' = FALSE
    /\ UNCHANGED <<drag_start, drag_vec, collision_enabled, agent_state>>
    /\ UNCHANGED <<drag_since_press, genVars>>

\* lines 74-96 and 197-198: on_key, for the keys r, c and an unbound key;
\* update() follows when on_key returns True.
Keys == {"r", "c", "z"}
OnKey ==
    /\ \E key \in Keys :
          /\ agent_state' = IF key = "r" THEN StartPose ELSE agent_state
          /\ collision_enabled' = IF key = "c" THEN ~collision_enabled
                                  ELSE collision_enabled
    /\ raised' = ""
    /\ released' = FALSE
    /\ UNCHANGED <<drag_start, drag_vec, drag_since_press, genVars>>

InitViewer ==
    /\ args = [n_episodes |-> 1, difficulty_ratios |-> <<1, 0, 0, 0>>,
               n_goals_per_ep |-> 1, seed |-> 0]
    /\ Fresh
    /\ sim_geodesic = "arbitrary"
    /\ observe = FALSE
    /\ run_no = 1
    /\ first_run = <<>>
    /\ ViewerConstructed

NextViewer ==
    \/ LButtonDown
    \/ MouseMove
    \/ LButtonUp
    \/ OtherMouseEvent
    \/ OnKey

SpecViewer == InitViewer /\ [][NextViewer]_vars

\* ------------------------------------------------------------------------
\* Properties
\* ------------------------------------------------------------------------
Ratios == args.difficulty_ratios
Total == args.n_episodes
\* the argument has 4 entries, none negative
FourNonNegative == Len(Ratios) = 4 /\ \A m \in 1..Len(Ratios) : Ratios[m] >= 0
Parsed == pc \notin {"config", "parse", "failed"} \/ (pc = "failed" /\ error = "IndexError")
\* a leg has just been taken: d, euc_d, src, dst are those of the leg
LegTaken == pc \in {"chain", "make"}
\* the number of make_episode calls made for bucket m
MadeFor(m) ==
    Cardinality({x \in 1..Len(make_calls) : make_calls[x].difficulty = DIFFICULTIES[m]})
\* the loop of bucket m has been left
BucketDone(m) == Parsed /\ pc # "failed" /\ (b > m \/ (b = m /\ pc = "bucket") \/ pc \in {"write", "done"})

\* C1: every accepted leg, first or chained, whose geodesic distance d is a
\* number has min_d <= d <= max_d for the bounds of its bucket and
\* d / euc >= 1.1, euc the Euclidean distance of the two points the leg
\* connects (src and dst, dst being the goal just recorded).
C1_AcceptedLegWithinBucket ==
    (LegTaken /\ d # NaN) =>
        /\ IsFinite(d)
        /\ DIFFICULTY_BOUNDS[b] <= d.v
        /\ d.v <= DIFFICULTY_BOUNDS[b + 1]
        /\ dst = destinations[Len(destinations)]
        /\ Dist(src, dst) > 0
        /\ d.v * RATIO_DEN >= MIN_DIST_RATIO_NUM * Dist(src, dst)

\* a chained leg with a finite distance has been accepted in the easy bucket
C1_Witness ==
    /\ pc = "chain"
    /\ Len(destinations) = 2
    /\ IsFinite(d)
    /\ b = 2

\* C2: every element appended to the dataset's episode list is an episode
\* record carrying the id and the difficulty label it was made with; none
\* is None.
C2_AppendedAreEpisodeRecords ==
    \A x \in 1..Len(episodes) :
        /\ episodes[x] # None
        /\ episodes[x].episode_id = make_calls[x].ep_id
        /\ episodes[x].info.difficulty = make_calls[x].difficulty

\* C3: two runs with the same seed, scene and parameters take the same
\* random decisions (the pair of every leg, the yaw of every episode).
C3_SameSeedSameDecisions ==
    (run_no = 2 /\ pc = "done") => decisions = first_run

\* C4 as stated: the target count of bucket m, and the number of episodes
\* made for it, is round(ratio_m / sum(ratios) * total).
C4_RoundedCounts ==
    (FourNonNegative /\ SumSeq(Ratios) > 0 /\ Parsed) =>
        \A m \in 1..4 :
            /\ difficulties[m].n_ep = PyRound(Ratios[m] * Total, SumSeq(Ratios))
            /\ BucketDone(m) => MadeFor(m) = PyRound(Ratios[m] * Total, SumSeq(Ratios))

\* C4, amended: the target count of bucket m is the integer part of
\* ratio_m * total / sum(ratios), never more episodes than that are made for
\* the bucket, and exactly that many once the bucket's loop is left.
C4_TruncatedCounts ==
    (FourNonNegative /\ SumSeq(Ratios) > 0 /\ Parsed) =>
        \A m \in 1..4 :
            LET c == difficulties[m].n_ep
            IN  /\ c * SumSeq(Ratios) <= Ratios[m] * Total
                /\ Ratios[m] * Total < (c + 1) * SumSeq(Ratios)
                /\ MadeFor(m) <= c
                /\ BucketDone(m) => MadeFor(m) = c

\* a run is done in which a bucket's share was not a whole number and an
\* episode was made for it
C4_Witness ==
    /\ pc = "done"
    /\ \E m \in 1..4 :
          /\ (Ratios[m] * Total) % SumSeq(Ratios) # 0
          /\ MadeFor(m) >= 1

\* the difficulty label an element of the episode list is tagged with
EpisodeDifficulty(e) == IF e = None THEN "" ELSE e.info.difficulty

\* C5: when every ratio_m * total is a multiple of sum(ratios), a completed
\* run has appended exactly ratio_m * total / sum(ratios) episodes tagged
\* with the label of bucket m, and `total` episodes in all.
C5_ExactSplitIsAppended ==
    (/\ pc = "done"
     /\ FourNonNegative
     /\ SumSeq(Ratios) > 0
     /\ \A m \in 1..4 : (Ratios[m] * Total) % SumSeq(Ratios) = 0) =>
        /\ Len(episodes) = Total
        /\ \A m \in 1..4 :
              Cardinality({x \in 1..Len(episodes) :
                              EpisodeDifficulty(episodes[x]) = DIFFICULTIES[m]})
                  = (Ratios[m] * Total) \div SumSeq(Ratios)

\* C6: the destinations handed to make_episode are as many as the
\* configured goals per episode (stated for the episodes whose distances
\* are all numbers, so that it does not rest on a nan leg).
C6_GoalCountIsConfigured ==
    (pc = "make" /\ IsFinite(tot_d)) => Len(destinations) = args.n_goals_per_ep

\* C7: in a chained leg the source is the destination of the leg before it,
\* and every pair drawn in the chained loop is a candidate pair with the
\* previous destination index `last` as an endpoint.
C7_LegsAreChained ==
    /\ (pc = "chain_leg" /\ d # None) =>
          /\ src = nav_pts[last + 1]
          /\ src = destinations[Len(destinations)]
          /\ dst = nav_pts[j + 1]
          /\ \E c \in 1..Len(candidates) :
                /\ candidates[c][1] \in {<<last, j>>, <<j, last>>}
                /\ candidates[c][2] = euc_d
    /\ (LegTaken /\ Len(destinations) >= 2) =>
          /\ src = destinations[Len(destinations) - 1]
          /\ dst = destinations[Len(destinations)]
    /\ (pc \in {"chain", "chain_leg", "make"}) =>
          nav_pts[last + 1] = destinations[Len(destinations)]

\* a second chained leg has been accepted
C7_Witness ==
    /\ pc = "chain"
    /\ leg = 1
    /\ Len(destinations) = 2
    /\ src = destinations[1]

\* C8: a leg is never accepted with a geodesic distance that is not a
\* number, infinite or negative.
C8_UnusableDistanceRejected ==
    LegTaken => (IsFinite(d) /\ d.v >= 0)

\* C9: with a ratio argument of fewer or more than 4 entries, or with a
\* negative entry, the run fails with ValueError and there is no simulator,
\* no simulator query, no episode and no dataset written.
C9_BadRatiosFailFast ==
    (Len(Ratios) # 4 \/ \E m \in 1..Len(Ratios) : Ratios[m] < 0) =>
        /\ pc \in {"config", "parse", "failed"}
        /\ pc = "failed" => error = "ValueError"
        /\ ~sim_created
        /\ sim_queries = {}
        /\ nav_pts = <<>>
        /\ episodes = <<>>
        /\ make_calls = <<>>
        /\ ~written

\* a run has failed on a ratio argument of 5 entries or more
C9_Witness ==
    /\ pc = "failed"
    /\ error = "ValueError"
    /\ Len(Ratios) > 4

\* C10: with exactly 4 non-negative ratios, parse_difficulty_ratios does not
\* fail: past it there is one entry for each of the 4 buckets, in order,
\* with the bounds (1, 3), (3, 7), (7, 13), (13, 20).
C10_FourRatiosAlwaysParse ==
    (FourNonNegative /\ pc \notin {"config", "parse"}) =>
        /\ error \notin {"ValueError", "ZeroDivisionError"}
        /\ Len(difficulties) = 4
        /\ \A m \in 1..Len(difficulties) :
              /\ difficulties[m].k = DIFFICULTIES[m]
              /\ difficulties[m].min_d = <<10, 30, 70, 130>>[m]
              /\ difficulties[m].max_d = <<30, 70, 130, 200>>[m]
        /\ \A m \in 1..(Len(difficulties) - 1) :
              difficulties[m].max_d = difficulties[m + 1].min_d

\* ------------------------------------------------------------------------
\* C11: the n-th episode assembled in the run (counting from 0, across the
\* buckets in their order) is given the id str(n), so the ids are unique and
\* contiguous and never restart with a bucket; and whenever the run is
\* between two episodes the id counter equals the number of episodes
\* appended and the number of progress units reported.
BucketIndex(k) == CHOOSE m \in 1..Len(DIFFICULTIES) : DIFFICULTIES[m] = k
AtEpisodeBoundary == pc \in {"bucket", "episode", "first_leg", "chain", "chain_leg",
                             "make", "write", "done"}
C11_IdsSequentialAcrossRun ==
    /\ \A x \in 1..Len(make_calls) : make_calls[x].ep_id = str(x - 1)
    /\ \A x, y \in 1..Len(make_calls) :
          /\ x # y => make_calls[x].ep_id # make_calls[y].ep_id
          /\ x < y => BucketIndex(make_calls[x].difficulty)
                         <= BucketIndex(make_calls[y].difficulty)
    /\ AtEpisodeBoundary =>
          /\ tot_cnt = Len(make_calls)
          /\ tot_cnt = Len(episodes)
          /\ tot_cnt = progress
\* two episodes of two different buckets have been assembled
C11_Witness ==
    /\ Len(make_calls) = 2
    /\ make_calls[1].difficulty # make_calls[2].difficulty
    /\ pc = "done"

\* C12: the distance handed to make_episode is the sum of the geodesic
\* distances of the accepted legs, so for an episode of g legs in the bucket
\* [min_d, max_d] it is a number within [g * min_d, g * max_d].
C12_RecordedDistanceWithinLegRange ==
    pc = "make" =>
        /\ IsFinite(tot_d)
        /\ Len(destinations) * Bucket.min_d <= tot_d.v
        /\ tot_d.v <= Len(destinations) * Bucket.max_d

\* C13: the pre-filter is a necessary condition of acceptance. In the
\* claim's words: for every pair of sampled points and every geodesic
\* distance d >= euc_d it may have, if the pair passes the acceptance test
\* of the bucket (min_d <= d <= max_d and d / euc_d >= 1.1) then it is in
\* the bucket's filtered candidate list.
AllPairs ==
    LET z == Zip(Pairs(Len(nav_pts)), pairwise_distance(nav_pts))
    IN  {z[m] : m \in 1..Len(z)}
BucketEntered == pc = "episode" /\ ep = 0
PassesAcceptance(v, e, min_d, max_d) ==
    /\ min_d <= v
    /\ v <= max_d
    /\ v * RATIO_DEN >= MIN_DIST_RATIO_NUM * e
InCandidates(c) == \E m \in 1..Len(candidates) : candidates[m] = c
C13_PrefilterNecessary ==
    BucketEntered =>
        \A c \in AllPairs :
            \A v \in Bucket.min_d..Bucket.max_d :
                (v >= c[2] /\ PassesAcceptance(v, c[2], Bucket.min_d, Bucket.max_d))
                    => InCandidates(c)
\* C13, amended: only the upper bound of the pre-filter is necessary. A pair
\* that passes the acceptance test has euc_d <= 1.2 * max_d, and it is in
\* the filtered list exactly when its euc_d is also at least 0.8 * min_d.
C13_UpperBoundNecessary ==
    BucketEntered =>
        \A c \in AllPairs :
            \A v \in Bucket.min_d..Bucket.max_d :
                (v >= c[2] /\ PassesAcceptance(v, c[2], Bucket.min_d, Bucket.max_d))
                    => /\ RATIO_DEN * c[2] <= PREFILTER_HIGH_NUM * Bucket.max_d
                       /\ InCandidates(c)
                             <=> PREFILTER_LOW_NUM * Bucket.min_d <= RATIO_DEN * c[2]
\* a bucket in which one acceptable pair is filtered in and another, closer
\* than 0.8 * min_d as the crow flies, is filtered out
C13_Witness ==
    /\ BucketEntered
    /\ \E c, e \in AllPairs :
          \E v, w \in Bucket.min_d..Bucket.max_d :
             /\ v >= c[2]
             /\ PassesAcceptance(v, c[2], Bucket.min_d, Bucket.max_d)
             /\ InCandidates(c)
             /\ w >= e[2]
             /\ PassesAcceptance(w, e[2], Bucket.min_d, Bucket.max_d)
             /\ ~InCandidates(e)

\* C14: when the bucket whose first leg is being selected has no pair in its
\* filtered list that passes the acceptance test, the filtered list being
\* empty included, the first-leg loop retries forever: the run stays in the
\* loop, raises no error and appends no episode for the bucket.
Accepts(r, e, min_d, max_d) ==
    \/ r.k = "nan"
    \/ r.k = "fin" /\ PassesAcceptance(r.v, e, min_d, max_d)
NoAcceptablePair ==
    \A m \in 1..Len(candidates) :
        \A r \in GeodesicReturns(nav_pts[candidates[m][1][1] + 1],
                                 nav_pts[candidates[m][1][2] + 1]) :
            ~Accepts(r, candidates[m][2], Bucket.min_d, Bucket.max_d)
InFirstLegLoop == pc = "first_leg" /\ error = "" /\ ~written /\ MadeFor(b) = 0
C14_NoAcceptablePairLoopsForever ==
    [](pc = "first_leg" /\ NoAcceptablePair => []InFirstLegLoop)
\* C14, amended: with a non-empty filtered list none of whose pairs passes
\* the test of the loop, the first-leg loop is never left, no error is
\* raised, no episode is appended for the bucket and another draw is always
\* the only step the run can take; with an empty filtered list the only
\* step is the first draw, which raises IndexError and ends the run
\* without an episode for the bucket.
StuckInFirstLeg == pc = "first_leg" /\ candidates # <<>> /\ NoAcceptablePair
EmptyInFirstLeg == pc = "first_leg" /\ candidates = <<>>
C14_NonEmptyLoopsForeverEmptyRaises ==
    /\ [](StuckInFirstLeg =>
             InFirstLegLoop /\ ENABLED FirstLegDraw /\ ~ENABLED FirstLegAccept)
    /\ [][StuckInFirstLeg => StuckInFirstLeg']_vars
    /\ [](EmptyInFirstLeg => ENABLED FirstLegDraw /\ ~ENABLED FirstLegAccept)
    /\ [][EmptyInFirstLeg =>
             /\ pc' = "failed"
             /\ error' = "IndexError"
             /\ ~written'
             /\ MadeFor(b)' = 0]_vars
    /\ [](pc = "failed" => ~ENABLED Next)
\* a pair of a non-empty filtered list was drawn and refused, and no pair of
\* the list can pass
C14_Witness ==
    /\ pc = "first_leg"
    /\ candidates # <<>>
    /\ NoAcceptablePair
    /\ d # None

\* C15: the start position handed to make_episode is the source point of
\* the episode's first leg, nav_pts[i] of the pair (i, j) accepted by the
\* first-leg loop, whatever the number of goals per episode.
C15_StartIsFirstLegSource ==
    (pc = "make" /\ IsFinite(tot_d)) => src = nav_pts[i + 1]

\* C16: whenever a chained leg is about to be selected the restricted
\* candidate list is not empty: it holds the pair of the previous leg, seen
\* from its other endpoint (the previous source, at the previous Euclidean
\* distance). So a draw of the chained loop never fails on an empty list,
\* and a chained leg may go back to the source of the leg before it.
C16_ChainedCandidatesNonEmpty ==
    /\ (pc = "chain_leg" /\ d = None) =>
          /\ nxt_candidates # <<>>
          /\ \E m \in 1..Len(nxt_candidates) :
                /\ nav_pts[nxt_candidates[m][1] + 1] = src
                /\ nxt_candidates[m][2] = euc_d
    /\ pc = "chain_leg" => nxt_candidates # <<>>
    /\ error = "IndexError" => (destinations = <<>> /\ candidates = <<>>)
\* a chained leg that went back to the source of the first leg was accepted
C16_Witness ==
    /\ pc = "chain"
    /\ leg = 1
    /\ Len(destinations) = 2
    /\ destinations[2] = nav_pts[i + 1]
    /\ destinations[1] # destinations[2]

\* C17: with a symmetric, deterministic geodesic distance and, for every
\* bucket with a non-zero target count, at least one pair of its filtered
\* list that passes the acceptance test, the run under fair random selection
\* eventually completes: every loop is left, all the target episodes are
\* appended, and the dataset is written once, after the last episode.
TargetTotal == SumSeq([m \in 1..Len(difficulties) |-> difficulties[m].n_ep])
BucketFeasible(m) ==
    LET cs == Candidates(nav_pts, difficulties[m].min_d, difficulties[m].max_d)
    IN  \E c \in 1..Len(cs) :
           \A r \in GeodesicReturns(nav_pts[cs[c][1][1] + 1], nav_pts[cs[c][1][2] + 1]) :
              /\ r.k = "fin"
              /\ PassesAcceptance(r.v, cs[c][2], difficulties[m].min_d,
                                  difficulties[m].max_d)
AllBucketsFeasible ==
    /\ sim_geodesic = "detour"
    /\ \A m \in 1..Len(difficulties) : difficulties[m].n_ep > 0 => BucketFeasible(m)
RunCompleted == pc = "done" /\ written /\ error = "" /\ Len(episodes) = TargetTotal
C17_FeasibleRunCompletes ==
    /\ (pc = "bucket" /\ b = 0 /\ AllBucketsFeasible) ~> RunCompleted
    /\ [](written => RunCompleted)
\* a feasible run of two episodes of two goals each has completed
C17_Witness ==
    /\ RunCompleted
    /\ AllBucketsFeasible
    /\ args.n_goals_per_ep = 2
    /\ Len(episodes) = 2

\* C18: for every sequence of mouse events on the map window, whenever
\* drag_vec is set drag_start is set too (so the drag marker of draw_map is
\* always drawn at the pressed pixel), and after a button release has been
\* handled both drag_start and drag_vec are None.
C18_DragVecOnlyWithDragStart ==
    /\ drag_vec # NoPoint => drag_start # NoPoint
    /\ drag_vec # NoPoint =>
          draw_map(agent_state, drag_start, drag_vec).drag
              = <<[at |-> drag_start, head |-> drag_vec]>>
    /\ released => (drag_start = NoPoint /\ drag_vec = NoPoint)
\* a release that followed a press and a drag has been handled
C18_Witness ==
    /\ released
    /\ raised = ""
    /\ agent_state.heading # DefaultHeading

\* C19: for every sequence of mouse events, a release not preceded by a
\* press and a press followed by another press included, the agent is only
\* teleported by a release that follows a press, to the position of that
\* press (collisions disabled), with the heading of the drag made since
\* that press, or the default heading when there was none; and
\* teleport_agent_on_map is never run with drag_start unset.
C19_TeleportOnlyAfterPress ==
    [][released' =>
          /\ drag_start # NoPoint
          /\ raised' = ""
          /\ ~collision_enabled =>
                agent_state'.position = project_map_to_pos(drag_start)
          /\ agent_state'.heading = HeadingOf(drag_since_press)]_vars

====
